---------------------------- MODULE Spec2Model ----------------------------
(***************************************************************************)
(* Model of the batch data-movement scripts in src/scripts:                *)
(*   functions.py  upload_parquet_files_to_s3, file_exists_in_s3,          *)
(*                 load_parquet_files_from_s3, normalize_column_names,     *)
(*                 enforce_metadata_types                                  *)
(*   constants.py  the arguments run.py passes                             *)
(*                                                                         *)
(* Three specifications share the module's variables:                      *)
(*   SpecUpload   successive runs of upload_parquet_files_to_s3            *)
(*   SpecLoad     one run of load_parquet_files_from_s3                    *)
(*   SpecEnforce  successive passes of enforce_metadata_types              *)
(*                                                                         *)
(* Strings that the code takes apart (paths, keys, column names) are       *)
(* sequences of one-character strings, so that join, basename, endswith,   *)
(* lower and replace are computed and not assumed.                         *)
(***************************************************************************)
EXTENDS Integers, Sequences, FiniteSets, TLC

VARIABLES
    \* ---- upload_parquet_files_to_s3 ----
    listdir,         \* os.listdir(local_directory): the directory's names, in its order
    remote,          \* the keys of the objects in the bucket
    dry_run,         \* the dry_run argument
    run,             \* which run of the uploader this is (1, 2, ...)
    pc,              \* "idle" | "loop" | "returned" | "raised"
    parquet_files,   \* the local variable parquet_files
    idx,             \* position of the for loop in parquet_files
    uploaded_files,  \* the local variable uploaded_files
    remote_before,   \* history: remote when the run started
    upload_calls,    \* history: the s3.upload_file calls of this run
    succeeded,       \* history: names whose s3.upload_file call returned, in order
    failed,          \* history: local paths logged "Failed to upload" in this run
    checked,         \* history: local paths whose existence check ran in this run
    lastCheck,       \* history: the last head_object outcome and what the checker did
    raisedBy,        \* history: what raised out of the run ("none" | "head" | "upload")
    prev,            \* history: how the previous run ended
    \* ---- load_parquet_files_from_s3 ----
    ls_files,        \* fs.ls(s3_path): the paths under the prefix, in listing order
    lpc,             \* "idle" | "loop" | "returned" | "raised"
    lfiles,          \* the local variable parquet_files of the loader
    lidx,            \* position of the for loop
    all_dfs,         \* the local variable all_dfs
    combined_df,     \* the returned table
    read_ok,         \* history: paths whose read succeeded, in order
    read_failed,     \* history: paths logged "Failed to read Parquet file"
    \* ---- enforce_metadata_types ----
    df,              \* the DataFrame
    schema,          \* metadata_obj.columns
    epc,             \* "idle" | "loop" | "returned" | "raised"
    eidx,            \* position of the for loop in the schema
    pass,            \* which application of enforce_metadata_types this is
    df_in,           \* history: the DataFrame the first application was given
    df_prev,         \* history: the DataFrame the previous application returned
    warnings         \* history: column names logged "not found in DataFrame"

upVars == <<listdir, remote, dry_run, run, pc, parquet_files, idx, uploaded_files,
            remote_before, upload_calls, succeeded, failed, checked, lastCheck,
            raisedBy, prev>>
ldVars == <<ls_files, lpc, lfiles, lidx, all_dfs, combined_df, read_ok, read_failed>>
enVars == <<df, schema, epc, eidx, pass, df_in, df_prev, warnings>>
vars == <<upVars, ldVars, enVars>>

(***************************************************************************)
(* Bounds                                                                  *)
(***************************************************************************)
MaxFiles == 3      \* names in the local directory
MaxRuns == 2       \* successive runs of the uploader
MaxObjects == 3    \* objects listed under the prefix
MaxRows == 2       \* rows of the table given to the type enforcer
MaxEntries == 2    \* entries of the schema
MaxPasses == 2     \* successive applications of the type enforcer

(***************************************************************************)
(* Strings                                                                 *)
(***************************************************************************)
\* str.endswith
EndsWith(s, suffix) ==
    /\ Len(suffix) <= Len(s)
    /\ SubSeq(s, Len(s) - Len(suffix) + 1, Len(s)) = suffix

\* str.startswith
StartsWith(s, prefix) ==
    /\ Len(prefix) <= Len(s)
    /\ SubSeq(s, 1, Len(prefix)) = prefix

\* the position of the last "/" of s, 0 when there is none (str.rfind + 1)
LastSlash(s) ==
    LET at == {i \in 1..Len(s) : s[i] = "/"}
    IN  IF at = {} THEN 0 ELSE CHOOSE i \in at : \A j \in at : j <= i

\* os.path.join(a, b) of posixpath, two components
PathJoin(a, b) ==
    IF StartsWith(b, <<"/">>) THEN b
    ELSE IF a = <<>> \/ EndsWith(a, <<"/">>) THEN a \o b
    ELSE a \o <<"/">> \o b

\* os.path.basename of posixpath
Basename(p) == SubSeq(p, LastSlash(p) + 1, Len(p))

\* the elements of a sequence
Range(s) == {s[i] : i \in 1..Len(s)}

\* the sequences without repetition over S, of length at most n
RECURSIVE InjSeqs(_, _)
InjSeqs(S, n) ==
    IF n = 0 THEN {<<>>}
    ELSE LET shorter == InjSeqs(S, n - 1)
         IN  shorter \cup
             {Append(q[1], q[2]) :
                 q \in {r \in shorter \X S : Len(r[1]) = n - 1 /\ r[2] \notin Range(r[1])}}

(***************************************************************************)
(* Tables.  A DataFrame is its column labels, in order, and one Series per *)
(* label: a dtype and the cells, in row order.  A cell is a record         *)
(* [k, s, n]: k is "str" (the text s), "int" (the integer n), "float" (n   *)
(* tenths), "ts" (the timestamp written s) or "na" (the missing marker of  *)
(* the dtype: None, NaN, NaT or <NA>).                                      *)
(***************************************************************************)
StrCell(t) == [k |-> "str", s |-> t, n |-> 0]
IntCell(i) == [k |-> "int", s |-> "", n |-> i]
FloatCell(tenths) == [k |-> "float", s |-> "", n |-> tenths]
TsCell(t) == [k |-> "ts", s |-> t, n |-> 0]
NA == [k |-> "na", s |-> "", n |-> 0]

Series(dtype, cells) == [dtype |-> dtype, cells |-> cells]
\* pd.DataFrame()
EmptyFrame == [columns |-> <<>>, data |-> <<>>]
NRows(t) == IF t.columns = <<>> THEN 0 ELSE Len(t.data[1].cells)
HasColumn(t, c) == \E i \in 1..Len(t.columns) : t.columns[i] = c
ColumnIndex(t, c) == CHOOSE i \in 1..Len(t.columns) : t.columns[i] = c
\* df[c]
Column(t, c) == t.data[ColumnIndex(t, c)]

\* the labels of the frames of a list, each once, in order of first appearance
RECURSIVE UnionColumns(_)
UnionColumns(dfs) ==
    IF dfs = <<>> THEN <<>>
    ELSE LET before == UnionColumns(SubSeq(dfs, 1, Len(dfs) - 1))
             last == dfs[Len(dfs)]
         IN  before \o SelectSeq(last.columns, LAMBDA c : c \notin Range(before))

\* the cells of label c over the frames of a list, a frame without the label
\* giving one missing cell per row
RECURSIVE StackCells(_, _)
StackCells(dfs, c) ==
    IF dfs = <<>> THEN <<>>
    ELSE LET t == dfs[1]
         IN  (IF HasColumn(t, c) THEN Column(t, c).cells
              ELSE [r \in 1..NRows(t) |-> NA])
             \o StackCells(Tail(dfs), c)

\* the dtype of label c in the concatenation: kept when every frame has it
\* with one dtype, object otherwise
StackDtype(dfs, c) ==
    LET dts == {IF HasColumn(dfs[i], c) THEN Column(dfs[i], c).dtype ELSE "missing"
                   : i \in 1..Len(dfs)}
    IN  IF Cardinality(dts) = 1 THEN CHOOSE d \in dts : TRUE ELSE "object"

\* pd.concat(dfs, ignore_index=True)
PdConcat(dfs) ==
    LET cols == UnionColumns(dfs)
    IN  [columns |-> cols,
         data |-> [i \in 1..Len(cols) |->
                      Series(StackDtype(dfs, cols[i]), StackCells(dfs, cols[i]))]]

(***************************************************************************)
(* constants.py, as run.py passes them                                     *)
(***************************************************************************)
\* "de-intro-project-jb/dev"
S3_PREFIX == <<"d", "e", "-", "i", "n", "t", "r", "o", "-", "p", "r", "o", "j", "e", "c", "t", "-", "j", "b", "/", "d", "e", "v">>
\* "data/example-data"
LOCAL_DIRECTORY == <<"d", "a", "t", "a", "/", "e", "x", "a", "m", "p", "l", "e", "-", "d", "a", "t", "a">>
\* "alpha-hmcts-de-testing-sandbox"
S3_BUCKET == <<"a", "l", "p", "h", "a", "-", "h", "m", "c", "t", "s", "-", "d", "e", "-", "t", "e", "s", "t", "i", "n", "g", "-", "s", "a", "n", "d", "b", "o", "x">>

\* the '.parquet' literal of list_parquet_files and list_parquet_files_from_s3
PARQUET == <<".", "p", "a", "r", "q", "u", "e", "t">>

(***************************************************************************)
(* The names a local directory may hold: two parquet files, a file of      *)
(* another kind, and a name that ends in "parquet" without the dot.        *)
(***************************************************************************)
FileA == <<"a", ".", "p", "a", "r", "q", "u", "e", "t">>
FileB == <<"b", ".", "p", "a", "r", "q", "u", "e", "t">>
FileC == <<"c", ".", "c", "s", "v">>
FileD == <<"d", "p", "a", "r", "q", "u", "e", "t">>
DirNames == {FileA, FileB, FileC, FileD}

(***************************************************************************)
(* list_parquet_files                                                      *)
(***************************************************************************)
\* the bug of returning the bare names instead of the joined paths
ListNamesOnly(local_directory, names) ==
    SelectSeq(names, LAMBDA file : EndsWith(file, PARQUET))

list_parquet_files(local_directory, names) ==
    LET kept == SelectSeq(names, LAMBDA file : EndsWith(file, PARQUET))
    IN  [i \in 1..Len(kept) |-> PathJoin(local_directory, kept[i])]

(***************************************************************************)
(* file_exists_in_s3                                                       *)
(* A head_object call ends in one of: the response (kind "ok"), a          *)
(* botocore ClientError carrying an error code, or an exception that is    *)
(* not a ClientError (no credentials, no connection).                      *)
(***************************************************************************)
HeadOk == [kind |-> "ok", code |-> ""]
HeadNotFound == [kind |-> "ClientError", code |-> "404"]
HeadFailures ==
    {[kind |-> "ClientError", code |-> "403"],
     [kind |-> "ClientError", code |-> "500"],
     [kind |-> "Exception", code |-> ""]}

\* what head_object can do for a key, given the bucket's objects
HeadOutcomes(objects, key) ==
    (IF key \in objects THEN {HeadOk} ELSE {HeadNotFound}) \cup HeadFailures

\* the bug of mapping every ClientError to "does not exist"
FileExistsAnyClientError(outcome) ==
    CASE outcome.kind = "ok" -> [ret |-> "True", logged |-> "info"]
      [] outcome.kind = "ClientError" -> [ret |-> "False", logged |-> "info"]
      [] OTHER -> [ret |-> "raise", logged |-> "none"]

\* ret: "True" | "False" | "raise" (the exception leaves the function)
file_exists_in_s3(outcome) ==
    CASE outcome.kind = "ok" -> [ret |-> "True", logged |-> "info"]
      [] outcome.kind = "ClientError" /\ outcome.code = "404" ->
            [ret |-> "False", logged |-> "info"]
      [] outcome.kind = "ClientError" -> [ret |-> "raise", logged |-> "error"]
      [] OTHER -> [ret |-> "raise", logged |-> "none"]

(***************************************************************************)
(* upload_parquet_files_to_s3                                              *)
(***************************************************************************)
\* the bug of leaving out the separator
S3KeyNoSeparator(s3_prefix, file_name) == s3_prefix \o file_name

\* s3_key = f"{s3_prefix}/{file_name}"
S3Key(s3_prefix, file_name) == s3_prefix \o <<"/">> \o file_name

\* the bug of never skipping
NeverSkip(ret) == FALSE

\* if file_exists_in_s3(bucket_name, s3_key): ... continue
SkipsFile(ret) == ret = "True"

\* the bug of ignoring the flag
NeverDryRun(flag) == FALSE

\* if dry_run:
TakesDryRunBranch(flag) == flag

NoCheck == [outcome |-> [kind |-> "none", code |-> ""], ret |-> "none", logged |-> "none"]
NoPrev == [status |-> "none", failed |-> {}, uploaded |-> <<>>]

\* the current iteration's local_path, file_name and s3_key
local_path == parquet_files[idx]
file_name == Basename(local_path)
s3_key == S3Key(S3_PREFIX, file_name)
InLoop == pc = "loop" /\ idx <= Len(parquet_files)

ldIdle ==
    /\ ls_files = <<>> /\ lpc = "idle" /\ lfiles = <<>> /\ lidx = 0
    /\ all_dfs = <<>> /\ combined_df = EmptyFrame
    /\ read_ok = <<>> /\ read_failed = {}
enIdle ==
    /\ df = EmptyFrame /\ schema = <<>> /\ epc = "idle"
    /\ eidx = 0 /\ pass = 0 /\ df_in = df /\ df_prev = df /\ warnings = {}
upIdle ==
    /\ listdir = <<>> /\ remote = {} /\ dry_run = FALSE /\ run = 0 /\ pc = "idle"
    /\ parquet_files = <<>> /\ idx = 0 /\ uploaded_files = <<>> /\ remote_before = {}
    /\ upload_calls = <<>> /\ succeeded = <<>> /\ failed = {} /\ checked = <<>>
    /\ lastCheck = NoCheck /\ raisedBy = "none" /\ prev = NoPrev

\* the keys the local names would be uploaded to, and one unrelated object
InitialKeys ==
    {S3Key(S3_PREFIX, FileA), S3Key(S3_PREFIX, FileB), S3Key(S3_PREFIX, <<"z">>)}

InitUpload ==
    /\ listdir \in InjSeqs(DirNames, MaxFiles)
    /\ remote \in SUBSET InitialKeys
    /\ dry_run \in BOOLEAN
    /\ run = 0 /\ pc = "idle"
    /\ parquet_files = <<>> /\ idx = 0 /\ uploaded_files = <<>>
    /\ remote_before = remote
    /\ upload_calls = <<>> /\ succeeded = <<>> /\ failed = {} /\ checked = <<>>
    /\ lastCheck = NoCheck /\ raisedBy = "none" /\ prev = NoPrev
    /\ ldIdle /\ enIdle

\* the call: lines 71-72, and the history of the run reset
StartRun ==
    /\ UNCHANGED <<ldVars, enVars>>
    /\ pc \in {"idle", "returned", "raised"}
    /\ run < MaxRuns
    /\ run' = run + 1
    /\ pc' = "loop"
    /\ parquet_files' = list_parquet_files(LOCAL_DIRECTORY, listdir)
    /\ uploaded_files' = <<>>
    /\ idx' = 1
    /\ remote_before' = remote
    /\ upload_calls' = <<>> /\ succeeded' = <<>> /\ failed' = {} /\ checked' = <<>>
    /\ lastCheck' = NoCheck /\ raisedBy' = "none"
    /\ prev' = [status |-> pc, failed |-> failed, uploaded |-> uploaded_files]
    /\ UNCHANGED <<listdir, remote, dry_run>>

\* the existence check of the iteration, with head_object ending in h
Checks(h) ==
    /\ h \in HeadOutcomes(remote, s3_key)
    /\ lastCheck' = [outcome |-> h, ret |-> file_exists_in_s3(h).ret,
                     logged |-> file_exists_in_s3(h).logged]
    /\ checked' = Append(checked, local_path)

\* line 78: file_exists_in_s3 raises, and nothing in the loop catches it
ExistsRaises ==
    /\ UNCHANGED <<ldVars, enVars>>
    /\ InLoop
    /\ \E h \in HeadOutcomes(remote, s3_key) :
        /\ Checks(h)
        /\ file_exists_in_s3(h).ret = "raise"
    /\ pc' = "raised"
    /\ raisedBy' = "head"
    /\ UNCHANGED <<listdir, remote, dry_run, run, parquet_files, idx, uploaded_files,
                   remote_before, upload_calls, succeeded, failed, prev>>

\* lines 78-80: the file is there, skip it
SkipExisting ==
    /\ UNCHANGED <<ldVars, enVars>>
    /\ InLoop
    /\ \E h \in HeadOutcomes(remote, s3_key) :
        /\ Checks(h)
        /\ file_exists_in_s3(h).ret # "raise"
        /\ SkipsFile(file_exists_in_s3(h).ret)
    /\ idx' = idx + 1
    /\ UNCHANGED <<listdir, remote, dry_run, run, pc, parquet_files, uploaded_files,
                   remote_before, upload_calls, succeeded, failed, raisedBy, prev>>

\* lines 82-83: the dry run logs what it would upload
DryRunLog ==
    /\ UNCHANGED <<ldVars, enVars>>
    /\ InLoop
    /\ \E h \in HeadOutcomes(remote, s3_key) :
        /\ Checks(h)
        /\ file_exists_in_s3(h).ret # "raise"
        /\ ~SkipsFile(file_exists_in_s3(h).ret)
    /\ TakesDryRunBranch(dry_run)
    /\ idx' = idx + 1
    /\ UNCHANGED <<listdir, remote, dry_run, run, pc, parquet_files, uploaded_files,
                   remote_before, upload_calls, succeeded, failed, raisedBy, prev>>

\* lines 85-89: s3.upload_file returns, the path is appended
UploadSucceeds ==
    /\ UNCHANGED <<ldVars, enVars>>
    /\ InLoop
    /\ \E h \in HeadOutcomes(remote, s3_key) :
        /\ Checks(h)
        /\ file_exists_in_s3(h).ret # "raise"
        /\ ~SkipsFile(file_exists_in_s3(h).ret)
    /\ ~TakesDryRunBranch(dry_run)
    /\ upload_calls' = Append(upload_calls, [key |-> s3_key, present |-> s3_key \in remote])
    /\ remote' = remote \cup {s3_key}
    /\ succeeded' = Append(succeeded, file_name)
    /\ uploaded_files' = Append(uploaded_files, local_path)
    /\ idx' = idx + 1
    /\ UNCHANGED <<listdir, dry_run, run, pc, parquet_files, remote_before, failed,
                   raisedBy, prev>>

\* the bug of leaving the try/except out: a failed upload leaves the function
UploadFailsUncaught ==
    /\ UNCHANGED <<ldVars, enVars>>
    /\ InLoop
    /\ \E h \in HeadOutcomes(remote, s3_key) :
        /\ Checks(h)
        /\ file_exists_in_s3(h).ret # "raise"
        /\ ~SkipsFile(file_exists_in_s3(h).ret)
    /\ ~TakesDryRunBranch(dry_run)
    /\ upload_calls' = Append(upload_calls, [key |-> s3_key, present |-> s3_key \in remote])
    /\ pc' = "raised"
    /\ raisedBy' = "upload"
    /\ UNCHANGED <<listdir, remote, dry_run, run, parquet_files, idx, uploaded_files,
                   remote_before, succeeded, failed, prev>>

\* lines 85-91: s3.upload_file raises, the failure is logged, the loop goes on
UploadFails ==
    /\ UNCHANGED <<ldVars, enVars>>
    /\ InLoop
    /\ \E h \in HeadOutcomes(remote, s3_key) :
        /\ Checks(h)
        /\ file_exists_in_s3(h).ret # "raise"
        /\ ~SkipsFile(file_exists_in_s3(h).ret)
    /\ ~TakesDryRunBranch(dry_run)
    /\ upload_calls' = Append(upload_calls, [key |-> s3_key, present |-> s3_key \in remote])
    /\ failed' = failed \cup {local_path}
    /\ idx' = idx + 1
    /\ UNCHANGED <<listdir, remote, dry_run, run, pc, parquet_files, uploaded_files,
                   remote_before, succeeded, raisedBy, prev>>

\* line 93
ReturnUploaded ==
    /\ UNCHANGED <<ldVars, enVars>>
    /\ pc = "loop"
    /\ idx > Len(parquet_files)
    /\ pc' = "returned"
    /\ UNCHANGED <<listdir, remote, dry_run, run, parquet_files, idx, uploaded_files,
                   remote_before, upload_calls, succeeded, failed, checked, lastCheck,
                   raisedBy, prev>>

NextUpload ==
    \/ StartRun
    \/ ExistsRaises
    \/ SkipExisting
    \/ DryRunLog
    \/ UploadSucceeds
    \/ UploadFails
    \/ ReturnUploaded

SpecUpload == InitUpload /\ [][NextUpload]_vars


(***************************************************************************)
(* The objects under the prefix: three parquet files and one file of       *)
(* another kind.  fs.ls gives "bucket/prefix/name".                        *)
(***************************************************************************)
ColId == <<"I", "d">>
ColDb == <<"D", " ", "b">>
ColZip == <<"z", "i", "p">>

TableA ==
    [columns |-> <<ColId, ColDb>>,
     data |-> <<Series("object", <<StrCell("1"), StrCell("2")>>),
                Series("object", <<StrCell("x"), NA>>)>>]
TableB ==
    [columns |-> <<ColId, ColDb>>,
     data |-> <<Series("object", <<StrCell("3")>>), Series("object", <<StrCell("y")>>)>>]
TableC ==
    [columns |-> <<ColDb, ColZip>>,
     data |-> <<Series("object", <<StrCell("z")>>), Series("object", <<StrCell("9")>>)>>]

\* s3_path = f"s3://{bucket_name}/{s3_prefix}", as fs.ls names what is under it
LsPath(name) == S3_BUCKET \o <<"/">> \o S3_PREFIX \o <<"/">> \o name
FileE == <<"c", ".", "p", "a", "r", "q", "u", "e", "t">>
Objects == {LsPath(FileA), LsPath(FileB), LsPath(FileE), LsPath(FileC)}
S3_SCHEME == <<"s", "3", ":", "/", "/">>

\* what the object at an s3 uri holds
ObjectTable(s3_uri) ==
    LET path == SubSeq(s3_uri, Len(S3_SCHEME) + 1, Len(s3_uri))
    IN  CASE path = LsPath(FileA) -> TableA
          [] path = LsPath(FileB) -> TableB
          [] OTHER -> TableC

(***************************************************************************)
(* list_parquet_files_from_s3 and load_parquet_files_from_s3               *)
(***************************************************************************)
list_parquet_files_from_s3(files) ==
    SelectSeq(files, LAMBDA f : EndsWith(f, PARQUET))

\* s3_uri = f"s3://{file_path}"
S3Uri(file_path) == S3_SCHEME \o file_path
InLoadLoop == lpc = "loop" /\ lidx <= Len(lfiles)

InitLoad ==
    /\ ls_files \in InjSeqs(Objects, MaxObjects)
    /\ lpc = "idle" /\ lfiles = <<>> /\ lidx = 0
    /\ all_dfs = <<>> /\ combined_df = EmptyFrame
    /\ read_ok = <<>> /\ read_failed = {}
    /\ upIdle /\ enIdle

\* lines 122-123
StartLoad ==
    /\ UNCHANGED <<upVars, enVars>>
    /\ lpc = "idle"
    /\ lfiles' = list_parquet_files_from_s3(ls_files)
    /\ all_dfs' = <<>>
    /\ lidx' = 1
    /\ lpc' = "loop"
    /\ UNCHANGED <<ls_files, combined_df, read_ok, read_failed>>

\* line 108: fs.ls raises (the bucket cannot be reached), the run ends
ListRaises ==
    /\ UNCHANGED <<upVars, enVars>>
    /\ lpc = "idle"
    /\ lpc' = "raised"
    /\ UNCHANGED <<ls_files, lfiles, lidx, all_dfs, combined_df, read_ok, read_failed>>

\* lines 126-130: the file is read and its table appended
ReadSucceeds ==
    /\ UNCHANGED <<upVars, enVars>>
    /\ InLoadLoop
    /\ all_dfs' = Append(all_dfs, ObjectTable(S3Uri(lfiles[lidx])))
    /\ read_ok' = Append(read_ok, lfiles[lidx])
    /\ lidx' = lidx + 1
    /\ UNCHANGED <<ls_files, lpc, lfiles, combined_df, read_failed>>

\* the loader without the try/except: a failed read leaves the function
ReadFailsUncaught ==
    /\ UNCHANGED <<upVars, enVars>>
    /\ InLoadLoop
    /\ read_failed' = read_failed \cup {lfiles[lidx]}
    /\ lpc' = "raised"
    /\ UNCHANGED <<ls_files, lfiles, lidx, all_dfs, combined_df, read_ok>>

\* lines 127-132: the read raises, the failure is logged, the loop goes on
ReadFails ==
    /\ UNCHANGED <<upVars, enVars>>
    /\ InLoadLoop
    /\ read_failed' = read_failed \cup {lfiles[lidx]}
    /\ lidx' = lidx + 1
    /\ UNCHANGED <<ls_files, lpc, lfiles, all_dfs, combined_df, read_ok>>

\* lines 134-136
ConcatAndReturn ==
    /\ UNCHANGED <<upVars, enVars>>
    /\ lpc = "loop"
    /\ lidx > Len(lfiles)
    /\ combined_df' = (IF all_dfs # <<>> THEN PdConcat(all_dfs) ELSE EmptyFrame)
    /\ lpc' = "returned"
    /\ UNCHANGED <<ls_files, lfiles, lidx, all_dfs, read_ok, read_failed>>

NextLoad ==
    \/ StartLoad
    \/ ListRaises
    \/ ReadSucceeds
    \/ ReadFails
    \/ ConcatAndReturn

SpecLoad == InitLoad /\ [][NextLoad]_vars

(***************************************************************************)
(* normalize_column_names                                                  *)
(***************************************************************************)
UpperCase == <<"A", "B", "C", "D", "E", "F", "G", "H", "I", "J", "K", "L", "M", "N", "O", "P", "Q", "R", "S", "T", "U", "V", "W", "X", "Y", "Z">>
LowerCase == <<"a", "b", "c", "d", "e", "f", "g", "h", "i", "j", "k", "l", "m", "n", "o", "p", "q", "r", "s", "t", "u", "v", "w", "x", "y", "z">>
\* str.lower, one character
Lower(c) ==
    IF \E i \in 1..Len(UpperCase) : UpperCase[i] = c
    THEN LowerCase[CHOOSE i \in 1..Len(UpperCase) : UpperCase[i] = c]
    ELSE c

\* name.lower().replace(" ", "_")
NormalizeName(name) ==
    [i \in 1..Len(name) |-> IF Lower(name[i]) = " " THEN "_" ELSE Lower(name[i])]

normalize_column_names(t) ==
    [columns |-> [i \in 1..Len(t.columns) |-> NormalizeName(t.columns[i])],
     data |-> t.data]

(***************************************************************************)
(* The pandas conversions enforce_metadata_types calls.  The texts of the  *)
(* model are tabulated: what each parses to, and how each value prints.    *)
(***************************************************************************)
ISO_FORMAT == "%Y-%m-%dT%H:%M:%S"
NoFormat == ""
Midnight2020 == "2020-01-01T00:00:00"

\* how a timestamp prints as text (str of a Timestamp: a space, no "T")
TsText(t) == CASE t = Midnight2020 -> "2020-01-01 00:00:00" [] OTHER -> t

\* the texts whose parse without a format does not depend on the parser's
\* defaults: ISO date-times, and text that is no date at all
GenericTexts == {Midnight2020, "2020-01-01 00:00:00", "x"}

\* one text parsed as a date-time, strictly by fmt when there is one
ParseDatetime(text, fmt) ==
    IF fmt = ISO_FORMAT
    THEN (IF text = Midnight2020 THEN TsCell(Midnight2020) ELSE NA)
    ELSE (IF text \in {Midnight2020, "2020-01-01 00:00:00"}
          THEN TsCell(Midnight2020) ELSE NA)

\* pd.to_datetime(series, format=fmt, errors="coerce")
ToDatetime(series, fmt) ==
    IF series.dtype = "datetime64" THEN series
    ELSE Series("datetime64",
                [r \in 1..Len(series.cells) |->
                    IF series.cells[r].k = "str"
                    THEN ParseDatetime(series.cells[r].s, fmt) ELSE NA])

\* how an integer and a float print
IntText(i) == CASE i = 30 -> "30" [] i = 1 -> "1" [] i = 2 -> "2" [] OTHER -> "0"
FloatText(tenths) == CASE tenths = 300 -> "30.0" [] tenths = 15 -> "1.5" [] OTHER -> "0.0"

\* series.astype("string")
AsTypeString(series) ==
    Series("string",
           [r \in 1..Len(series.cells) |->
               LET c == series.cells[r]
               IN  CASE c.k = "str" -> c
                     [] c.k = "int" -> StrCell(IntText(c.n))
                     [] c.k = "float" -> StrCell(FloatText(c.n))
                     [] c.k = "ts" -> StrCell(TsText(c.s))
                     [] OTHER -> NA])

\* one text parsed as a number
ParseNumber(text) ==
    CASE text = "30" -> IntCell(30)
      [] text = "1.5" -> FloatCell(15)
      [] text = "30.0" -> FloatCell(300)
      [] OTHER -> NA

\* pd.to_numeric(series, errors="coerce"): a numeric series is returned as it
\* is; of an object series every text is parsed, and the result is int64 when
\* every cell is an integer, float64 (NaN for the missing) otherwise
ToNumeric(series) ==
    IF series.dtype \in {"int64", "float64", "Int64"} THEN series
    ELSE LET parsed == [r \in 1..Len(series.cells) |->
                           IF series.cells[r].k = "str"
                           THEN ParseNumber(series.cells[r].s) ELSE NA]
         IN  IF \A r \in 1..Len(parsed) : parsed[r].k = "int"
             THEN Series("int64", parsed)
             ELSE Series("float64",
                         [r \in 1..Len(parsed) |->
                             IF parsed[r].k = "int" THEN FloatCell(10 * parsed[r].n)
                             ELSE parsed[r]])

\* whether series.astype("Int64") raises: a float that is no whole number
\* cannot be cast safely (TypeError)
AsTypeInt64Raises(series) ==
    \E r \in 1..Len(series.cells) :
        series.cells[r].k = "float" /\ series.cells[r].n % 10 # 0

\* series.astype("Int64"), when it does not raise
AsTypeInt64(series) ==
    Series("Int64",
           [r \in 1..Len(series.cells) |->
               LET c == series.cells[r]
               IN  IF c.k = "float" THEN IntCell(c.n \div 10) ELSE c])

(***************************************************************************)
(* enforce_metadata_types                                                  *)
(***************************************************************************)
T_STRING == <<"s", "t", "r", "i", "n", "g">>
T_TIMESTAMP == <<"t", "i", "m", "e", "s", "t", "a", "m", "p">>
T_TIMESTAMP_S == <<"t", "i", "m", "e", "s", "t", "a", "m", "p", "(", "s", ")">>
T_INT == <<"i", "n", "t">>
T_INTEGER == <<"i", "n", "t", "e", "g", "e", "r">>
T_FLOAT == <<"f", "l", "o", "a", "t">>
T_DOUBLE == <<"d", "o", "u", "b", "l", "e">>
T_BOOLEAN == <<"b", "o", "o", "l", "e", "a", "n">>

IsStringType(col_type) == col_type = T_STRING
IsTimestampType(col_type) == StartsWith(col_type, T_TIMESTAMP)
IsIntType(col_type) == col_type \in {T_INT, T_INTEGER}
IsFloatType(col_type) == col_type \in {T_FLOAT, T_DOUBLE}

\* the bug of casting a column of an unknown type tag to text
CastColumnAlsoUnknown(col_type, fmt, series) ==
    CASE IsTimestampType(col_type) ->
            [raises |-> FALSE, changes |-> TRUE, series |-> ToDatetime(series, fmt)]
      [] IsIntType(col_type) ->
            [raises |-> AsTypeInt64Raises(ToNumeric(series)), changes |-> TRUE,
             series |-> AsTypeInt64(ToNumeric(series))]
      [] IsFloatType(col_type) ->
            [raises |-> FALSE, changes |-> TRUE, series |-> ToNumeric(series)]
      [] OTHER ->
            [raises |-> FALSE, changes |-> TRUE, series |-> AsTypeString(series)]

\* the bug of re-reading the column as text before parsing the dates
CastColumnViaText(col_type, fmt, series) ==
    CASE IsStringType(col_type) ->
            [raises |-> FALSE, changes |-> TRUE, series |-> AsTypeString(series)]
      [] IsTimestampType(col_type) ->
            [raises |-> FALSE, changes |-> TRUE,
             series |-> ToDatetime(AsTypeString(series), fmt)]
      [] IsIntType(col_type) ->
            [raises |-> AsTypeInt64Raises(ToNumeric(series)), changes |-> TRUE,
             series |-> AsTypeInt64(ToNumeric(series))]
      [] IsFloatType(col_type) ->
            [raises |-> FALSE, changes |-> TRUE, series |-> ToNumeric(series)]
      [] OTHER -> [raises |-> FALSE, changes |-> FALSE, series |-> series]

\* lines 190-197: the if/elif chain on col_type.  raises: the right-hand side
\* raises; changes: a branch is taken and df[col_name] is assigned
CastColumn(col_type, fmt, series) ==
    CASE IsStringType(col_type) ->
            [raises |-> FALSE, changes |-> TRUE, series |-> AsTypeString(series)]
      [] IsTimestampType(col_type) ->
            [raises |-> FALSE, changes |-> TRUE, series |-> ToDatetime(series, fmt)]
      [] IsIntType(col_type) ->
            [raises |-> AsTypeInt64Raises(ToNumeric(series)), changes |-> TRUE,
             series |-> AsTypeInt64(ToNumeric(series))]
      [] IsFloatType(col_type) ->
            [raises |-> FALSE, changes |-> TRUE, series |-> ToNumeric(series)]
      [] OTHER -> [raises |-> FALSE, changes |-> FALSE, series |-> series]

\* df[col_name] = series
SetColumn(t, c, series) ==
    [t EXCEPT !.data = [j \in 1..Len(t.columns) |->
                           IF j = ColumnIndex(t, c) THEN series ELSE t.data[j]]]

(***************************************************************************)
(* The tables and schemas given to the enforcer.  The table is what the    *)
(* loader and normalize_column_names hand over: a column "D b" of one to   *)
(* MaxRows texts or missing values, and a column "Id".  A schema is up to  *)
(* MaxEntries entries; two of the names normalize to the first column and  *)
(* one to no column.                                                       *)
(***************************************************************************)
NameNope == <<"N", "o", "p", "e">>
NameDbNormal == <<"d", "_", "b">>
SchemaNames == {ColDb, NameDbNormal, NameNope}
Texts == {"30", "x", "1.5", Midnight2020}
RawCells == {StrCell(t) : t \in Texts} \cup {NA}

Entry(name, type, fmt) == [name |-> name, type |-> type, datetime_format |-> fmt]
Entries ==
    {Entry(n, t, NoFormat) :
        n \in SchemaNames,
        t \in {T_STRING, T_TIMESTAMP, T_TIMESTAMP_S, T_INT, T_INTEGER, T_FLOAT,
               T_DOUBLE, T_BOOLEAN}}
    \cup {Entry(n, T_TIMESTAMP, ISO_FORMAT) : n \in SchemaNames}

RECURSIVE SeqsUpTo(_, _)
SeqsUpTo(S, n) ==
    IF n = 0 THEN {<<>>}
    ELSE LET shorter == SeqsUpTo(S, n - 1)
         IN  shorter \cup {Append(q, x) : q \in {r \in shorter : Len(r) = n - 1}, x \in S}

RawTables ==
    {[columns |-> <<ColDb, ColId>>,
      data |-> <<Series("object", cells),
                 Series("object", [r \in 1..Len(cells) |-> StrCell(IntText(r))])>>]
        : cells \in SeqsUpTo(RawCells, MaxRows) \ {<<>>}}

\* The conversions above are tabulated for a column that is cast within one
\* family: to text and date-time, or to numbers.  A schema that casts one
\* column across the families, or parses numerals as dates without a format,
\* is left out.
CastFamily(e) ==
    CASE IsStringType(e.type) \/ IsTimestampType(e.type) -> "text"
      [] IsIntType(e.type) \/ IsFloatType(e.type) -> "number"
      [] OTHER -> "none"
Tabulated(t, sch) ==
    \A c \in Range(t.columns) :
        LET named == {i \in 1..Len(sch) :
                         NormalizeName(sch[i].name) = c /\ CastFamily(sch[i]) # "none"}
        IN  /\ \A i, j \in named : CastFamily(sch[i]) = CastFamily(sch[j])
            /\ (\E i \in named : IsTimestampType(sch[i].type)
                                    /\ sch[i].datetime_format = NoFormat)
                  => \A r \in 1..NRows(t) :
                        Column(t, c).cells[r].k = "str"
                            => Column(t, c).cells[r].s \in GenericTexts

\* the current entry of the loop: lines 176-184
col == schema[eidx]
col_name == NormalizeName(col.name)
col_type == col.type
fmt == col.datetime_format
InEnforceLoop == epc = "loop" /\ eidx <= Len(schema)

\* run.py lines 45-50: the table is normalized, then enforced
InitEnforce ==
    /\ \E raw \in RawTables : df = normalize_column_names(raw)
    /\ schema \in SeqsUpTo(Entries, MaxEntries)
    /\ Tabulated(df, schema)
    /\ epc = "idle" /\ eidx = 0 /\ pass = 0
    /\ df_in = df /\ df_prev = df /\ warnings = {}
    /\ upIdle /\ ldIdle

\* the call, on the table the previous application returned
StartEnforce ==
    /\ UNCHANGED <<upVars, ldVars>>
    /\ epc \in {"idle", "returned"}
    /\ pass < MaxPasses
    /\ pass' = pass + 1
    /\ df_prev' = df
    /\ eidx' = 1
    /\ epc' = "loop"
    /\ warnings' = {}
    /\ UNCHANGED <<df, schema, df_in>>

\* lines 186-188
ColumnNotFound ==
    /\ UNCHANGED <<upVars, ldVars>>
    /\ InEnforceLoop
    /\ ~HasColumn(df, col_name)
    /\ warnings' = warnings \cup {col_name}
    /\ eidx' = eidx + 1
    /\ UNCHANGED <<df, schema, epc, pass, df_in, df_prev>>

\* lines 190-197, a branch taken: the column is replaced by its cast
CastsColumn ==
    /\ UNCHANGED <<upVars, ldVars>>
    /\ InEnforceLoop
    /\ HasColumn(df, col_name)
    /\ LET cast == CastColumn(col_type, fmt, Column(df, col_name))
       IN  /\ cast.changes /\ ~cast.raises
           /\ df' = SetColumn(df, col_name, cast.series)
    /\ eidx' = eidx + 1
    /\ UNCHANGED <<schema, epc, pass, df_in, df_prev, warnings>>

\* lines 190-197, no branch taken
UnknownType ==
    /\ UNCHANGED <<upVars, ldVars>>
    /\ InEnforceLoop
    /\ HasColumn(df, col_name)
    /\ ~CastColumn(col_type, fmt, Column(df, col_name)).changes
    /\ eidx' = eidx + 1
    /\ UNCHANGED <<df, schema, epc, pass, df_in, df_prev, warnings>>

\* line 195: astype("Int64") raises, nothing catches it
CastRaises ==
    /\ UNCHANGED <<upVars, ldVars>>
    /\ InEnforceLoop
    /\ HasColumn(df, col_name)
    /\ CastColumn(col_type, fmt, Column(df, col_name)).raises
    /\ epc' = "raised"
    /\ UNCHANGED <<df, schema, eidx, pass, df_in, df_prev, warnings>>

\* line 199
ReturnFrame ==
    /\ UNCHANGED <<upVars, ldVars>>
    /\ epc = "loop"
    /\ eidx > Len(schema)
    /\ epc' = "returned"
    /\ UNCHANGED <<df, schema, eidx, pass, df_in, df_prev, warnings>>

NextEnforce ==
    \/ StartEnforce
    \/ ColumnNotFound
    \/ CastsColumn
    \/ UnknownType
    \/ CastRaises
    \/ ReturnFrame

SpecEnforce == InitEnforce /\ [][NextEnforce]_vars

(***************************************************************************)
(* Properties of the uploader (SpecUpload).  They are stated over the      *)
(* directory's names and the bucket's keys, with the destination key       *)
(* written out, not through the model's S3Key.                             *)
(***************************************************************************)
LocalParquetNames == {n \in Range(listdir) : EndsWith(n, PARQUET)}
DestinationKey(n) == S3_PREFIX \o <<"/">> \o n
LocalPathOf(n) == LOCAL_DIRECTORY \o <<"/">> \o n
\* the existence checker's answer for a key when head_object answers
ReportedPresent(key) ==
    \E h \in HeadOutcomes(remote, key) : file_exists_in_s3(h).ret = "True"
RunEnded == pc \in {"returned", "raised"}

\* C1 as claimed: after a run with dry_run=false returns, every local .parquet
\* file whose destination key was absent before the run is reported present.
C1_AllAbsentFilesPresentAfter ==
    (pc = "returned" /\ ~dry_run) =>
        \A n \in LocalParquetNames :
            DestinationKey(n) \notin remote_before => ReportedPresent(DestinationKey(n))

\* C1 amended: after a run with dry_run=false returns, every local .parquet file
\* whose destination key was absent before the run is reported present unless
\* its upload failed; a file whose upload failed was logged and is still absent.
C1_AbsentFilesPresentUnlessUploadFailed ==
    (pc = "returned" /\ ~dry_run) =>
        \A n \in LocalParquetNames :
            DestinationKey(n) \notin remote_before =>
                IF LocalPathOf(n) \in failed
                THEN ~ReportedPresent(DestinationKey(n))
                ELSE ReportedPresent(DestinationKey(n))

\* a run that uploaded one absent file and failed to upload another
C1_Witness ==
    /\ pc = "returned" /\ ~dry_run /\ run = 1
    /\ \E n, m \in LocalParquetNames :
        /\ DestinationKey(n) \notin remote_before /\ DestinationKey(n) \in remote
        /\ DestinationKey(m) \notin remote_before /\ LocalPathOf(m) \in failed

\* C2: a run with dry_run=true issues no upload call, leaves the remote objects
\* as they were, and returns an empty uploaded list.
C2_DryRunChangesNothing ==
    (dry_run /\ pc # "idle") =>
        /\ upload_calls = <<>>
        /\ remote = remote_before
        /\ (pc = "returned" => uploaded_files = <<>>)

\* a dry run that returned after meeting a file that is absent remotely
C2_Witness ==
    /\ dry_run /\ pc = "returned"
    /\ \E n \in LocalParquetNames :
        DestinationKey(n) \notin remote /\ LocalPathOf(n) \in Range(checked)

C4_ReturnsUploadedNames ==
    pc = "returned" => uploaded_files = succeeded

\* C4 amended: the returned list holds, in upload order, the local path
\* (local_directory joined with the file name) of exactly the files whose
\* upload was performed successfully in this run: the files that the run made
\* present, and none that was skipped, only logged by a dry run, or failed.
C4_ReturnsUploadedLocalPaths ==
    pc = "returned" =>
        /\ uploaded_files = [i \in 1..Len(succeeded) |-> LocalPathOf(succeeded[i])]
        /\ \A n \in LocalParquetNames :
              LocalPathOf(n) \in Range(uploaded_files)
                  <=> DestinationKey(n) \in remote \ remote_before
        /\ Range(uploaded_files) \cap failed = {}
        /\ Range(uploaded_files) \subseteq {LocalPathOf(n) : n \in LocalParquetNames}

\* the example: a.parquet and b.parquet locally, a.parquet already remote
C4_Witness ==
    /\ pc = "returned" /\ ~dry_run /\ run = 1
    /\ listdir = <<FileA, FileB>>
    /\ DestinationKey(FileA) \in remote_before
    /\ DestinationKey(FileB) \notin remote_before
    /\ uploaded_files = <<LocalPathOf(FileB)>>

\* C5: the checker answers present when head_object succeeds, absent only for
\* a 404 ClientError, and raises for every other failure.
C5_OnlyNotFoundIsAbsent ==
    lastCheck.ret # "none" =>
        /\ lastCheck.outcome.kind = "ok" => lastCheck.ret = "True"
        /\ lastCheck.ret = "True" => lastCheck.outcome.kind = "ok"
        /\ lastCheck.ret = "False" =>
              lastCheck.outcome.kind = "ClientError" /\ lastCheck.outcome.code = "404"
        /\ (lastCheck.outcome.kind # "ok" /\ lastCheck.outcome.code # "404") =>
              lastCheck.ret = "raise" /\ pc = "raised"

\* a head_object refused with 403 for a key that is absent
C5_Witness ==
    /\ lastCheck.outcome.kind = "ClientError" /\ lastCheck.outcome.code = "403"
    /\ lastCheck.ret = "raise"
    /\ checked # <<>> /\ DestinationKey(Basename(checked[Len(checked)])) \notin remote

\* the files of the run that an upload call was issued for
Attempted == {upload_calls[i].key : i \in 1..Len(upload_calls)}

\* C6 as claimed: no failure while processing one file, in its existence check
\* or in its upload, aborts the batch: when the run ends every file has been
\* checked and, if absent and not dry-run, an upload was issued for it.
C6_NoFailureAbortsBatch ==
    RunEnded =>
        /\ checked = parquet_files
        /\ ~dry_run => \A n \in LocalParquetNames :
              DestinationKey(n) \notin remote_before => DestinationKey(n) \in Attempted

\* C6 amended: a failed upload is logged and does not abort the batch: the
\* loop goes on to check every later file and to upload it if absent and not
\* dry-run. A failure of the existence check other than not-found is raised
\* out of upload_parquet_files_to_s3: the run ends at that file.
C6_OnlyExistenceCheckFailureAborts ==
    /\ pc = "loop" => checked = SubSeq(parquet_files, 1, idx - 1)
    /\ pc = "returned" =>
          /\ checked = parquet_files
          /\ ~dry_run => \A n \in LocalParquetNames :
                DestinationKey(n) \notin remote_before => DestinationKey(n) \in Attempted
    /\ pc = "raised" =>
          /\ raisedBy = "head"
          /\ lastCheck.ret = "raise"
          /\ checked = SubSeq(parquet_files, 1, idx)
    /\ failed # {} => raisedBy # "upload"

\* a run that returned after a failed upload followed by a successful one
C6_Witness ==
    /\ pc = "returned" /\ Len(upload_calls) = 2
    /\ upload_calls[1].key \notin remote
    /\ upload_calls[2].key \in remote \ remote_before
    /\ Cardinality(failed) = 1


(***************************************************************************)
(* Properties of the loader (SpecLoad), stated over the listing and the    *)
(* objects' tables, not through the model's PdConcat.                      *)
(***************************************************************************)
\* the listed parquet paths whose read did not fail, in listing order
ListedAndRead ==
    SelectSeq(ls_files, LAMBDA f : EndsWith(f, PARQUET) /\ f \notin read_failed)
TableAt(i) == ObjectTable(S3_SCHEME \o ListedAndRead[i])
\* the rows of the tables before the i-th
RECURSIVE RowsBefore(_)
RowsBefore(i) == IF i <= 1 THEN 0 ELSE RowsBefore(i - 1) + NRows(TableAt(i - 1))

C7_WitnessEmpty ==
    /\ lpc = "returned" /\ read_failed # {} /\ read_ok = <<>>
    /\ combined_df = EmptyFrame


(***************************************************************************)
(* Properties of the type enforcer (SpecEnforce).  The normalized labels   *)
(* and the known type tags are written out, not taken from the model's     *)
(* NormalizeName and CastColumn.                                           *)
(***************************************************************************)
LabelDb == <<"d", "_", "b">>
LabelId == <<"i", "d">>
LabelNope == <<"n", "o", "p", "e">>
ExpectedLabel(name) == IF name = NameNope THEN LabelNope ELSE LabelDb
KnownTags == {T_STRING, T_TIMESTAMP, T_TIMESTAMP_S, T_INT, T_INTEGER, T_FLOAT, T_DOUBLE}
\* the entries that name column c with a known type tag
CastingEntries(c) ==
    {i \in 1..Len(schema) : ExpectedLabel(schema[i].name) = c /\ schema[i].type \in KnownTags}

\* C8 as claimed: the enforcer never aborts on a value that cannot be cast to
\* the declared type; in a column declared int or integer an unparseable value
\* becomes missing, the others are cast, and every present value is an integer.
C8_UncastableBecomesMissing ==
    /\ epc # "raised"
    /\ (epc = "returned" /\ pass = 1 /\ Len(schema) = 1
          /\ schema[1].type \in {T_INT, T_INTEGER} /\ ExpectedLabel(schema[1].name) = LabelDb)
        => \A r \in 1..NRows(df) :
              LET before == Column(df_in, LabelDb).cells[r]
                  after == Column(df, LabelDb).cells[r]
              IN  /\ after.k \in {"int", "na"}
                  /\ (before = StrCell("30")) => after = IntCell(30)
                  /\ (before # StrCell("30")) => after = NA

\* C9: the enforcer changes only the columns that a schema entry names, after
\* lowercasing and space-to-underscore, with a known type tag: the labels and
\* their order stay, a column no such entry names keeps its values and dtype,
\* an entry naming no column is logged and skipped, and neither it nor an
\* entry with another type tag raises.
C9_OnlyNamedColumnsChange ==
    /\ df.columns = df_in.columns
    /\ df.columns = <<LabelDb, LabelId>>
    /\ \A j \in 1..Len(df.columns) :
          /\ Len(df.data[j].cells) = Len(df_in.data[j].cells)
          /\ CastingEntries(df.columns[j]) = {} => df.data[j] = df_in.data[j]
          /\ (epc = "returned" /\ CastingEntries(df.columns[j]) # {})
                => df.data[j].dtype # "object"
    /\ epc = "returned" =>
          warnings = {ExpectedLabel(schema[i].name) :
                         i \in {k \in 1..Len(schema) : schema[k].name = NameNope}}
    /\ epc = "raised" => eidx \in CastingEntries(LabelDb)

\* an entry that names no column, then an integer cast of the first column
C9_Witness ==
    /\ epc = "returned" /\ pass = 1
    /\ schema = <<Entry(NameNope, T_STRING, NoFormat), Entry(ColDb, T_INTEGER, NoFormat)>>
    /\ warnings = {LabelNope}
    /\ Column(df_in, LabelDb).cells = <<StrCell("30"), StrCell("x")>>
    /\ Column(df, LabelDb) = Series("Int64", <<IntCell(30), NA>>)
    /\ Column(df, LabelId) = Column(df_in, LabelId)

\* C10 as claimed: for every table and schema, applying the enforcer to a
\* table it has already been applied to yields identical values and types.
C10_SecondPassChangesNothing ==
    (epc = "returned" /\ pass >= 2) => df = df_prev

\* C10 amended: for every table and every schema in which no column is named
\* by more than one entry, applying the enforcer to a table it has already
\* been applied to yields identical values and types.
C10_SecondPassChangesNothingWhenNamedOnce ==
    (epc = "returned" /\ pass >= 2
        /\ \A c \in Range(df.columns) : Cardinality(CastingEntries(c)) <= 1)
      => df = df_prev

\* a column of texts parsed as date-times by a format, and enforced again
C10_Witness ==
    /\ epc = "returned" /\ pass = 2
    /\ schema = <<Entry(ColDb, T_TIMESTAMP, ISO_FORMAT)>>
    /\ Column(df_in, LabelDb).cells = <<StrCell(Midnight2020), StrCell("x")>>
    /\ Column(df, LabelDb) = Series("datetime64", <<TsCell(Midnight2020), NA>>)
    /\ df = df_prev

====
